---- MODULE Spec2Model ----
(***************************************************************************)
(* Model of ephemeris' run_data_managers.py: the orchestration loop run_dm *)
(* (lines 60-108), the polling routine wait (lines 30-41) and the table    *)
(* existence check check_data_table_entry_exists (lines 43-58).            *)
(*                                                                         *)
(* Strings that the program transforms (parameter templates, items, table  *)
(* cell values) are sequences of one-character strings.  Names that are    *)
(* only compared (table names, column names, parameter keys, dataset       *)
(* states) are TLA+ strings.                                               *)
(*                                                                         *)
(* The remote Galaxy server is the environment.  It is observed through    *)
(* four calls: show_data_table, run_tool, show_dataset, reload_data_table. *)
(* Environment assumptions: run_tool returns at least one output dataset;  *)
(* reload_data_table and show_dataset return without raising; a table's    *)
(* visible rows change only when the table is reloaded.                    *)
(***************************************************************************)
EXTENDS Integers, Sequences, FiniteSets, TLC

VARIABLES
    conf,       \* the loaded configuration: conf.get('data_managers')
    tables,     \* remote: table name -> [columns, fields]; unknown names are absent
    p,          \* index of the (dm, item) pair being processed (0 before the first)
    pc,         \* position of run_dm
    inputs,     \* the inputs dict of the current pair: key -> resolved value
    order,      \* iteration order of inputs.values() (a Python 2 dict is unordered)
    present,    \* item_present_in_data_table
    ti,         \* position of the for-loop over data_table_reload (line 89)
    vi,         \* position of the for-loop over inputs.values() (line 93)
    datasets,   \* remote: states of the output datasets of the job being waited
                \* for (no longer tracked once the program has moved on)
    polls,      \* polls of the current wait that saw a non-terminal state
    ri,         \* position of the for-loop over data_table_reload (line 104)
    rc,         \* position of the for-loop over range(2) (line 106)
    calls,      \* remote calls and sleeps made for the current pair, in order
    results,    \* how each finished pair ended: "SKIPPED" or "DONE"
    nSubmit,    \* run_tool calls made so far in the run
    nReload,    \* reload_data_table calls made so far in the run
    waiting,    \* submitted jobs whose wait has not yet returned
    err         \* message of the uncaught exception, "" while none

vars == <<conf, tables, p, pc, inputs, order, present, ti, vi, datasets,
          polls, ri, rc, calls, results, nSubmit, nReload, waiting, err>>

----------------------------------------------------------------------------
(* Bounds of the model. *)

MaxJobs == 2        \* data managers in a configuration
MaxOutputs == 2     \* output datasets a submitted job returns
MaxPolls == 1       \* non-terminal polls in one wait

(* Constants of the program. *)

PollInterval == 30
ReloadTimes_Once == 2 - 1   \* faulty variant: a single reload per target
ReloadTimes == 2
ReloadDelay == 5

----------------------------------------------------------------------------
(* Strings. *)

EmptyStr == <<>>
aStr == <<"a">>
bStr == <<"b">>
cStr == <<"c">>

TmplItem == <<"{", "{", "i", "t", "e", "m", "}", "}">>
TmplItemWs == <<"{", "{", " ", "I", "t", "E", "M", " ", "}", "}">>

Lower(ch) ==
    CASE ch = "I" -> "i"
      [] ch = "T" -> "t"
      [] ch = "E" -> "e"
      [] ch = "M" -> "m"
      [] OTHER -> ch

IsSpace(ch) == ch \in {" ", "\t", "\n"}

CharAt(s, i) == IF i >= 1 /\ i <= Len(s) THEN s[i] ELSE ""

RECURSIVE SkipSpace(_, _)
SkipSpace(s, i) ==
    IF i <= Len(s) /\ IsSpace(s[i]) THEN SkipSpace(s, i + 1) ELSE i

(* The position after a match of {{\s*item\s*}} (IGNORECASE) starting at i, *)
(* or 0 when the pattern does not match at i.                              *)
MatchEnd(s, i) ==
    IF CharAt(s, i) = "{" /\ CharAt(s, i + 1) = "{"
    THEN LET j == SkipSpace(s, i + 2)
         IN IF /\ Lower(CharAt(s, j)) = "i"
               /\ Lower(CharAt(s, j + 1)) = "t"
               /\ Lower(CharAt(s, j + 2)) = "e"
               /\ Lower(CharAt(s, j + 3)) = "m"
            THEN LET k == SkipSpace(s, j + 4)
                 IN IF CharAt(s, k) = "}" /\ CharAt(s, k + 1) = "}"
                    THEN k + 2
                    ELSE 0
            ELSE 0
    ELSE 0

(* The replacement argument of re.sub is a template: sre_parse reads a     *)
(* backslash with the character after it as an escape (Python 2.7).  Of    *)
(* the characters of the model: \\ is a backslash, \n a newline, \1 a      *)
(* reference to group 1, \x stays as it is, and a backslash at the end is  *)
(* an error.  raised is the error of parsing the template, out what a      *)
(* match is replaced by, group whether the template refers to a group (the *)
(* pattern has none: expanding a match then fails).                        *)
RECURSIVE ExpandFrom(_, _)
ExpandFrom(item, i) ==
    IF i > Len(item)
    THEN [raised |-> "", out |-> <<>>, group |-> FALSE]
    ELSE IF item[i] # "\\"
    THEN LET rest == ExpandFrom(item, i + 1)
         IN [rest EXCEPT !.out = <<item[i]>> \o @]
    ELSE IF i = Len(item)
    THEN [raised |-> "bogus escape (end of line)", out |-> <<>>, group |-> FALSE]
    ELSE LET c == item[i + 1]
             rest == ExpandFrom(item, i + 2)
         IN CASE c = "\\" -> [rest EXCEPT !.out = <<"\\">> \o @]
              [] c = "n" -> [rest EXCEPT !.out = <<"\n">> \o @]
              [] c = "1" -> [rest EXCEPT !.group = TRUE]
              [] OTHER -> [rest EXCEPT !.out = <<"\\", c>> \o @]

Expand(item) == ExpandFrom(item, 1)

(* The value has a match of the pattern at or after position i. *)
RECURSIVE HasMatch(_, _)
HasMatch(value, i) ==
    IF i > Len(value) THEN FALSE
    ELSE IF MatchEnd(value, i) > 0 THEN TRUE ELSE HasMatch(value, i + 1)

(* re.sub(r'{{\s*item\s*}}', item, value, flags=re.IGNORECASE): leftmost   *)
(* non-overlapping matches are replaced, the replacement is not rescanned.  *)
RECURSIVE SubFrom(_, _, _)
SubFrom(value, item, i) ==
    IF i > Len(value)
    THEN <<>>
    ELSE LET m == MatchEnd(value, i)
         IN IF m > 0
            THEN item \o SubFrom(value, item, m)
            ELSE <<value[i]>> \o SubFrom(value, item, i + 1)

(* What line 84 does: raised is the re.error it raises ("" for none), ret  *)
(* the new value.                                                          *)
SubResult(value, item) ==
    LET e == Expand(item)
    IN IF e.raised # ""
       THEN [raised |-> e.raised, ret |-> <<>>]
       ELSE IF e.group /\ HasMatch(value, 1)
       THEN [raised |-> "invalid group reference", ret |-> <<>>]
       ELSE [raised |-> "", ret |-> SubFrom(value, e.out, 1)]

Sub(value, item) == SubResult(value, item).ret

----------------------------------------------------------------------------
(* The configuration. *)

(* Faulty variant: no default for an absent items key. *)
GetItems_NoDefault(dm) == IF "items" \in DOMAIN dm THEN dm.items ELSE <<>>

GetItems(dm) == IF "items" \in DOMAIN dm THEN dm.items ELSE <<EmptyStr>>

GetReload(dm) ==
    IF "data_table_reload" \in DOMAIN dm THEN dm.data_table_reload ELSE <<>>

PairsOfDm(c, d) ==
    [i \in 1..Len(GetItems(c[d])) |-> [dm |-> d, item |-> GetItems(c[d])[i]]]

RECURSIVE PairsFrom(_, _)
PairsFrom(c, d) ==
    IF d > Len(c) THEN <<>> ELSE PairsOfDm(c, d) \o PairsFrom(c, d + 1)

(* Faulty variant: a key that is already in the dict keeps its value. *)
DictUpdate_KeepFirst(d, key, value) ==
    [k \in DOMAIN d \cup {key} |-> IF k \in DOMAIN d THEN d[k] ELSE value]

(* The (dm, item) pairs in the order of the two for-loops of lines 74-75. *)
PairsOf(c) == PairsFrom(c, 1)

DictUpdate(d, key, value) ==
    [k \in DOMAIN d \cup {key} |-> IF k = key THEN value ELSE d[k]]

(* param.items()[0] is the single (key, value) entry of a param (the list  *)
(* returned by dict.items() in Python 2); a param is modelled as that      *)
(* entry, <<key, value template>>.                                         *)
RECURSIVE BuildInputs(_, _, _, _)
BuildInputs(params, item, i, acc) ==
    IF i > Len(params)
    THEN acc
    ELSE BuildInputs(params, item, i + 1,
                     DictUpdate(acc, params[i][1], Sub(params[i][2], item)))

(* Lines 79-85: the inputs dict of one (dm, item) pair. *)
ResolveInputs(dm, item) == BuildInputs(dm.params, item, 1, <<>>)

(* Faulty variant: only one of the input values is checked. *)
Orders_OneValue(d) ==
    {s \in [1..(IF DOMAIN d = {} THEN 0 ELSE 1) -> DOMAIN d] : TRUE}

(* The re.error, if any, that line 84 raises while the inputs of the pair  *)
(* are built ("" for none): nothing in run_dm catches it.                  *)
RECURSIVE InputsRaise(_, _, _)
InputsRaise(params, item, i) ==
    IF i > Len(params)
    THEN ""
    ELSE IF SubResult(params[i][2], item).raised # ""
    THEN SubResult(params[i][2], item).raised
    ELSE InputsRaise(params, item, i + 1)

Orders(d) ==
    {s \in [1..Cardinality(DOMAIN d) -> DOMAIN d] :
        \A i, j \in DOMAIN s : s[i] = s[j] => i = j}

----------------------------------------------------------------------------
(* The remote tables. *)

RECURSIVE IndexFrom(_, _, _)
IndexFrom(s, x, i) ==
    IF i > Len(s) THEN 0 ELSE IF s[i] = x THEN i ELSE IndexFrom(s, x, i + 1)

(* list.index: position of the first x in s, 0 when s has none (ValueError). *)
IndexOf(s, x) == IndexFrom(s, x, 1)

RECURSIVE AnyField(_, _, _, _)
AnyField(fields, idx, value, i) ==
    IF i > Len(fields)
    THEN FALSE
    ELSE IF fields[i][idx] = value THEN TRUE ELSE AnyField(fields, idx, value, i + 1)

(* Faulty variant: the value is looked up in every column (value in field). *)
CheckEntryExists_AnyColumn(tbls, name, value) ==
    IF name \notin DOMAIN tbls
    THEN [raised |-> "Table does not exist", ret |-> FALSE]
    ELSE LET content == tbls[name]
         IN IF IndexOf(content.columns, "value") = 0
            THEN [raised |-> "Value does not exist in data table", ret |-> FALSE]
            ELSE [raised |-> "",
                  ret |-> \E r \in DOMAIN content.fields :
                             \E ci \in DOMAIN content.fields[r] :
                                content.fields[r][ci] = value]

(* Faulty variant: the value is looked up in the first column. *)
CheckEntryExists_FirstColumn(tbls, name, value) ==
    IF name \notin DOMAIN tbls
    THEN [raised |-> "Table does not exist", ret |-> FALSE]
    ELSE LET content == tbls[name]
         IN IF IndexOf(content.columns, "value") = 0
            THEN [raised |-> "Value does not exist in data table", ret |-> FALSE]
            ELSE [raised |-> "", ret |-> AnyField(content.fields, 1, value, 1)]

(* Faulty variant: an unknown table or a missing "value" column counts as  *)
(* "value absent" instead of raising.                                      *)
CheckEntryExists_MissingIsAbsent(tbls, name, value) ==
    IF name \notin DOMAIN tbls
    THEN [raised |-> "", ret |-> FALSE]
    ELSE LET content == tbls[name]
             value_index == IndexOf(content.columns, "value")
         IN IF value_index = 0
            THEN [raised |-> "", ret |-> FALSE]
            ELSE [raised |-> "",
                  ret |-> AnyField(content.fields, value_index, value, 1)]

(* Faulty variant: a value that an earlier pair of the run ran a job for   *)
(* is remembered as absent from the table, which is not read again.        *)
CheckEntryExists_Cached(tbls, name, value) ==
    IF \E q \in DOMAIN results :
          /\ results[q] = "DONE"
          /\ \E t \in DOMAIN GetReload(conf[PairsOf(conf)[q].dm]) :
                GetReload(conf[PairsOf(conf)[q].dm])[t] = name
          /\ value \in {ResolveInputs(conf[PairsOf(conf)[q].dm],
                                      PairsOf(conf)[q].item)[k] :
                         k \in DOMAIN ResolveInputs(conf[PairsOf(conf)[q].dm],
                                                    PairsOf(conf)[q].item)}
    THEN [raised |-> "", ret |-> FALSE]
    ELSE IF name \notin DOMAIN tbls
    THEN [raised |-> "Table does not exist", ret |-> FALSE]
    ELSE IF IndexOf(tbls[name].columns, "value") = 0
    THEN [raised |-> "Value does not exist in data table", ret |-> FALSE]
    ELSE [raised |-> "",
          ret |-> AnyField(tbls[name].fields,
                           IndexOf(tbls[name].columns, "value"), value, 1)]

(* check_data_table_entry_exists: raised is the exception it raises ("" for  *)
(* none), ret its return value.                                            *)
CheckEntryExists(tbls, name, value) ==
    IF name \notin DOMAIN tbls
    THEN [raised |-> "Table does not exist", ret |-> FALSE]
    ELSE LET content == tbls[name]
             value_index == IndexOf(content.columns, "value")
         IN IF value_index = 0
            THEN [raised |-> "Value does not exist in data table", ret |-> FALSE]
            ELSE [raised |-> "",
                  ret |-> AnyField(content.fields, value_index, value, 1)]

----------------------------------------------------------------------------
(* The configurations and remote states the model starts from. *)

Params0 == <<>>
Params1 == <<<<"k1", TmplItem>>>>
Params2 == <<<<"k1", TmplItemWs>>, <<"k2", cStr>>>>
Params3 == <<<<"k1", cStr>>, <<"k1", TmplItem>>>>

DmSet ==
    { [id |-> "dm", items |-> <<aStr, bStr>>, params |-> Params1,
       data_table_reload |-> <<"A">>],
      [id |-> "dm", items |-> <<aStr>>, params |-> Params2,
       data_table_reload |-> <<"A", "B">>],
      [id |-> "dm", items |-> <<aStr>>, params |-> Params3,
       data_table_reload |-> <<"B", "A">>],
      [id |-> "dm", params |-> Params1, data_table_reload |-> <<"A">>],
      [id |-> "dm", items |-> <<aStr, bStr>>, params |-> Params1],
      [id |-> "dm", items |-> <<aStr>>, params |-> Params2,
       data_table_reload |-> <<>>],
      [id |-> "dm", items |-> <<bStr>>, params |-> Params0,
       data_table_reload |-> <<"A">>],
      [id |-> "dm", items |-> <<>>, params |-> Params1,
       data_table_reload |-> <<"A">>] }

(* The everyday shape: several items, one templated param, one table. *)
DmBasic ==
    {dm \in DmSet : /\ Len(GetItems(dm)) > 1
                    /\ dm.params = Params1
                    /\ Len(GetReload(dm)) = 1}

(* Configurations of up to MaxJobs data managers, at most one of them of a *)
(* shape outside DmBasic.                                                  *)
ConfSet ==
    {c \in UNION {[1..n -> DmSet] : n \in 1..MaxJobs} :
        Cardinality({i \in DOMAIN c : c[i] \notin DmBasic}) <= 1}

(* The row of a value: the value sits in the second column, and the other  *)
(* columns hold different strings.                                         *)
OtherStr(v) == IF v = aStr THEN bStr ELSE aStr

RowOf(v) == <<OtherStr(v), v, <<"/">> \o v>>

ValueList == <<EmptyStr, aStr, bStr, cStr>>

RECURSIVE RowsFrom(_, _)
RowsFrom(vals, i) ==
    IF i > Len(ValueList)
    THEN <<>>
    ELSE (IF ValueList[i] \in vals THEN <<RowOf(ValueList[i])>> ELSE <<>>)
         \o RowsFrom(vals, i + 1)

TableWith(vals) ==
    [columns |-> <<"name", "value", "path">>, fields |-> RowsFrom(vals, 1)]

TableNoValue ==
    [columns |-> <<"name", "path">>, fields |-> <<<<aStr, cStr>>>>]

TableOpts ==
    {TableNoValue, TableWith({}), TableWith({aStr, cStr}),
     TableWith({EmptyStr, aStr, bStr, cStr})}

TableNames == {"A", "B"}

(* Table A in every state of TableOpts, table B empty or full; each of    *)
(* them may also be unknown to the server.                                 *)
TablesSet ==
    {t \in UNION {[known -> TableOpts] : known \in SUBSET TableNames} :
        "B" \in DOMAIN t =>
            t["B"] \in {TableWith({}), TableWith({EmptyStr, aStr, bStr, cStr})}}

----------------------------------------------------------------------------
(* The state machine. *)

Pairs == PairsOf(conf)

CurDm == conf[Pairs[p].dm]

CurItem == Pairs[p].item

CurReload == GetReload(CurDm)

(* One entry of calls: a remote call or a sleep made for pair p. *)
Call(op, table, value, state, secs) ==
    [op |-> op, pair |-> p, table |-> table, value |-> value,
     state |-> state, secs |-> secs]

ReadCall(table, value) == Call("read", table, value, "", 0)
SubmitCall == Call("submit", "", <<>>, "", 0)
PollCall(state) == Call("poll", "", <<>>, state, 0)
ReloadCall(table) == Call("reload", table, <<>>, "", 0)
SleepCall(secs) == Call("sleep", "", <<>>, "", secs)

CallsOf(op) == SelectSeq(calls, LAMBDA c : c.op = op)

Terminal(state) == state \in {"ok", "error"}

Init ==
    /\ conf \in ConfSet
    /\ tables \in TablesSet
    /\ p = 0
    /\ pc = "next"
    /\ inputs = <<>>
    /\ order = <<>>
    /\ present = FALSE
    /\ ti = 1
    /\ vi = 1
    /\ datasets = <<>>
    /\ polls = 0
    /\ ri = 1
    /\ rc = 0
    /\ calls = <<>>
    /\ results = <<>>
    /\ nSubmit = 0
    /\ nReload = 0
    /\ waiting = 0
    /\ err = ""

(* Faulty variants: the flag starts True; the flag accumulates over the    *)
(* tables; a job that ended in error aborts the run.                       *)
InitialFlag_True == TRUE

FlagAfter_Or(flag, found) == flag \/ found

AfterWait_FailFast(state) == IF state = "error" THEN "aborted" ELSE "reload"

(* Faulty variant: a job that ended in error is submitted again. *)
AfterWait_RetryOnError(state) == IF state = "error" THEN "submit" ELSE "reload"

(* Line 88: the flag before any check. *)
InitialFlag == FALSE

(* Lines 95 and 98: the flag after a check is the result of that check. *)
FlagAfter(flag, found) == found

(* Lines 102-104: where run_dm goes on when wait has returned on state. *)
AfterWait(state) == "reload"

(* Lines 74-88: the for-loops take the next (dm, item) pair, the inputs     *)
(* dict is built from the params and the flag is reset.                    *)
NextPair ==
    /\ pc = "next"
    /\ p < Len(Pairs)
    /\ p' = p + 1
    /\ LET pair == Pairs[p + 1]
           raised == InputsRaise(conf[pair.dm].params, pair.item, 1)
           d == IF raised = ""
                THEN ResolveInputs(conf[pair.dm], pair.item)
                ELSE <<>>
       IN /\ inputs' = d
          /\ order' \in Orders(d)
          /\ err' = raised
          /\ pc' = IF raised = "" THEN "check" ELSE "aborted"
    /\ present' = InitialFlag
    /\ ti' = 1
    /\ vi' = 1
    /\ datasets' = <<>>
    /\ polls' = 0
    /\ calls' = <<>>
    /\ UNCHANGED <<conf, tables, ri, rc, results, nSubmit, nReload, waiting>>

(* The loops of lines 89 and 93 have no iteration left. *)
CheckDone == ti > Len(CurReload) \/ Len(order) = 0

(* Faulty variant: the break of line 98 leaves both loops. *)
CheckEntry_BreakAll ==
    /\ pc = "check"
    /\ ~CheckDone
    /\ LET data_table == CurReload[ti]
           input_value == inputs[order[vi]]
           r == CheckEntryExists(tables, data_table, input_value)
       IN /\ calls' = Append(calls, ReadCall(data_table, input_value))
          /\ IF r.raised # ""
             THEN /\ pc' = "aborted"
                  /\ err' = r.raised
                  /\ UNCHANGED <<present, ti, vi>>
             ELSE /\ UNCHANGED <<pc, err>>
                  /\ IF ~r.ret
                     THEN /\ present' = FALSE
                          /\ ti' = Len(CurReload) + 1
                          /\ vi' = 1
                     ELSE /\ present' = TRUE
                          /\ IF vi < Len(order)
                             THEN /\ vi' = vi + 1
                                  /\ UNCHANGED ti
                             ELSE /\ ti' = ti + 1
                                  /\ vi' = 1
    /\ UNCHANGED <<conf, tables, p, inputs, order, datasets, polls, ri, rc,
                   results, nSubmit, nReload, waiting>>

(* Lines 93-98: one iteration of the inner loop, one existence check. *)
CheckEntry ==
    /\ pc = "check"
    /\ ~CheckDone
    /\ LET data_table == CurReload[ti]
           input_value == inputs[order[vi]]
           r == CheckEntryExists(tables, data_table, input_value)
       IN /\ calls' = Append(calls, ReadCall(data_table, input_value))
          /\ IF r.raised # ""
             THEN /\ pc' = "aborted"
                  /\ err' = r.raised
                  /\ UNCHANGED <<present, ti, vi>>
             ELSE /\ UNCHANGED <<pc, err>>
                  /\ IF ~r.ret
                     THEN /\ present' = FlagAfter(present, FALSE)
                          /\ ti' = ti + 1
                          /\ vi' = 1
                     ELSE /\ present' = FlagAfter(present, TRUE)
                          /\ IF vi < Len(order)
                             THEN /\ vi' = vi + 1
                                  /\ UNCHANGED ti
                             ELSE /\ ti' = ti + 1
                                  /\ vi' = 1
    /\ UNCHANGED <<conf, tables, p, inputs, order, datasets, polls, ri, rc,
                   results, nSubmit, nReload, waiting>>

(* Faulty variant: the reload loop sits outside the if of line 100. *)
Skip_ThenReload ==
    /\ pc = "check"
    /\ CheckDone
    /\ present
    /\ ri' = 1
    /\ rc' = 0
    /\ pc' = "reload"
    /\ UNCHANGED <<conf, tables, p, inputs, order, present, ti, vi, datasets,
                   polls, calls, results, nSubmit, nReload, waiting, err>>

(* Line 100, condition false: nothing is done for the pair. *)
Skip ==
    /\ pc = "check"
    /\ CheckDone
    /\ present
    /\ results' = Append(results, "SKIPPED")
    /\ pc' = "next"
    /\ UNCHANGED <<conf, tables, p, inputs, order, present, ti, vi, datasets,
                   polls, ri, rc, calls, nSubmit, nReload, waiting, err>>

(* Faulty variant: the first absent value ends all checks of the pair. *)
Run_OnFirstAbsence ==
    /\ pc = "check"
    /\ ~present
    /\ CheckDone \/ Len(CallsOf("read")) >= 1
    /\ pc' = "submit"
    /\ UNCHANGED <<conf, tables, p, inputs, order, present, ti, vi, datasets,
                   polls, ri, rc, calls, results, nSubmit, nReload, waiting, err>>

(* Line 100, condition true. *)
Run ==
    /\ pc = "check"
    /\ CheckDone
    /\ ~present
    /\ pc' = "submit"
    /\ UNCHANGED <<conf, tables, p, inputs, order, present, ti, vi, datasets,
                   polls, ri, rc, calls, results, nSubmit, nReload, waiting, err>>

(* Faulty variant: the job is submitted and not waited for. *)
RunTool_NoWait ==
    /\ pc = "submit"
    /\ \E n \in 1..MaxOutputs : datasets' = [k \in 1..n |-> "running"]
    /\ calls' = Append(calls, SubmitCall)
    /\ nSubmit' = nSubmit + 1
    /\ waiting' = waiting + 1
    /\ polls' = 0
    /\ ri' = 1
    /\ rc' = 0
    /\ pc' = "reload"
    /\ UNCHANGED <<conf, tables, p, inputs, order, present, ti, vi,
                   results, nReload, err>>

(* Lines 101-102: gi.tools.run_tool returns the job with its output         *)
(* datasets, and wait is entered.                                          *)
RunTool ==
    /\ pc = "submit"
    /\ \E n \in 1..MaxOutputs : datasets' = [k \in 1..n |-> "running"]
    /\ calls' = Append(calls, SubmitCall)
    /\ nSubmit' = nSubmit + 1
    /\ waiting' = waiting + 1
    /\ polls' = 0
    /\ pc' = "wait"
    /\ UNCHANGED <<conf, tables, p, inputs, order, present, ti, vi, ri, rc,
                   results, nReload, err>>

(* Faulty variant: only ok ends the wait. *)
WaitOver_OkOnly(state) == state = "ok"

(* Line 38: the condition that ends the loop of wait. *)
WaitOver(state) == state \in {"ok", "error"}

(* Lines 35-41: one iteration of the loop of wait.  Only the first output  *)
(* dataset is looked at.                                                   *)
Poll ==
    /\ pc = "wait"
    /\ LET state == datasets[1]
       IN IF WaitOver(state)
          THEN /\ calls' = Append(calls, PollCall(state))
               /\ waiting' = waiting - 1
               /\ ri' = 1
               /\ rc' = 0
               /\ pc' = AfterWait(state)
               /\ UNCHANGED polls
          ELSE /\ polls < MaxPolls
               /\ calls' = calls \o <<PollCall(state), SleepCall(PollInterval)>>
               /\ polls' = polls + 1
               /\ UNCHANGED <<waiting, ri, rc, pc>>
    /\ UNCHANGED <<conf, tables, p, inputs, order, present, ti, vi, datasets,
                   results, nSubmit, nReload, err>>

(* The remote server: an output dataset of the running job changes state. *)
DatasetProgress ==
    /\ pc = "wait"
    /\ \E k \in DOMAIN datasets :
          \E s \in {"ok", "error"} :
             /\ ~Terminal(datasets[k])
             /\ datasets' = [datasets EXCEPT ![k] = s]
    /\ UNCHANGED <<conf, tables, p, pc, inputs, order, present, ti, vi, polls,
                   ri, rc, calls, results, nSubmit, nReload, waiting, err>>

(* The wait of the current pair has returned. *)
WaitReturned ==
    \E i \in DOMAIN calls : calls[i].op = "poll" /\ Terminal(calls[i].state)

(* The state the wait of the current pair returned on. *)
Outcome ==
    IF WaitReturned
    THEN calls[CHOOSE i \in DOMAIN calls :
                  calls[i].op = "poll" /\ Terminal(calls[i].state)].state
    ELSE ""

RECURSIVE NewRows(_, _, _)
NewRows(content, vals, i) ==
    IF i > Len(ValueList)
    THEN <<>>
    ELSE (IF /\ ValueList[i] \in vals
             /\ ~AnyField(content.fields, IndexOf(content.columns, "value"),
                          ValueList[i], 1)
          THEN <<RowOf(ValueList[i])>>
          ELSE <<>>) \o NewRows(content, vals, i + 1)

(* The remote server: what a table shows after a reload.  A job that ended *)
(* ok may have added rows for its input values; whether the reload already *)
(* shows them is not known to the caller.                                  *)
AfterReload(tbls, name) ==
    {tbls} \cup
    IF /\ name \in DOMAIN tbls
       /\ IndexOf(tbls[name].columns, "value") # 0
       /\ Outcome = "ok"
    THEN {[tbls EXCEPT ![name].fields =
              @ \o NewRows(tbls[name], {inputs[k] : k \in DOMAIN inputs}, 1)]}
    ELSE {}

(* Lines 104-108: one iteration of the inner loop: one reload call and the *)
(* sleep that follows it.                                                  *)
Reload ==
    /\ pc = "reload"
    /\ ri <= Len(CurReload)
    /\ LET data_table == CurReload[ri]
       IN /\ calls' = calls \o <<ReloadCall(data_table), SleepCall(ReloadDelay)>>
          /\ tables' \in AfterReload(tables, data_table)
    /\ nReload' = nReload + 1
    /\ IF rc + 1 < ReloadTimes
       THEN /\ rc' = rc + 1
            /\ UNCHANGED ri
       ELSE /\ rc' = 0
            /\ ri' = ri + 1
    /\ datasets' = <<>>
    /\ UNCHANGED <<conf, p, pc, inputs, order, present, ti, vi, polls,
                   results, nSubmit, waiting, err>>

(* Line 104, no target left: the body of the item loop ends. *)
EndPair ==
    /\ pc = "reload"
    /\ ri > Len(CurReload)
    /\ results' = Append(results, "DONE")
    /\ pc' = "next"
    /\ datasets' = <<>>
    /\ UNCHANGED <<conf, tables, p, inputs, order, present, ti, vi,
                   polls, ri, rc, calls, nSubmit, nReload, waiting, err>>

(* Line 74, no data manager left: run_dm returns. *)
Finish ==
    /\ pc = "next"
    /\ p = Len(Pairs)
    /\ pc' = "done"
    /\ UNCHANGED <<conf, tables, p, inputs, order, present, ti, vi, datasets,
                   polls, ri, rc, calls, results, nSubmit, nReload, waiting, err>>

Next ==
    \/ NextPair
    \/ CheckEntry
    \/ Skip
    \/ Run
    \/ RunTool
    \/ Poll
    \/ DatasetProgress
    \/ Reload
    \/ EndPair
    \/ Finish

Spec == Init /\ [][Next]_vars

(* The steps of run_dm itself: a single thread of control that, unless it  *)
(* is blocked in a remote call or asleep, goes on to its next statement.   *)
Program ==
    \/ NextPair
    \/ CheckEntry
    \/ Skip
    \/ Run
    \/ RunTool
    \/ Poll
    \/ Reload
    \/ EndPair
    \/ Finish

(* The run under the assumption that the program keeps running and that    *)
(* the server brings every dataset of a submitted job to ok or error.  It  *)
(* starts from the configurations of one or two data managers whose first  *)
(* is of the everyday shape.                                               *)
LiveConfSet == {c \in ConfSet : Len(c) <= 2 /\ c[1] \in DmBasic}

LiveInit == Init /\ conf \in LiveConfSet

LiveSpec ==
    LiveInit /\ [][Next]_vars /\ WF_vars(Program) /\ WF_vars(DatasetProgress)

----------------------------------------------------------------------------
(* Vocabulary of the properties. *)

OnlyReads == \A i \in DOMAIN calls : calls[i].op = "read"

(* The current pair has left the body of the item loop. *)
PairFinished == p > 0 /\ pc \in {"next", "done"}

ValuesOf(d) == {d[k] : k \in DOMAIN d}

(* Table name is known, has a column "value" and a row with v in it. *)
HasValue(tbls, name, v) ==
    /\ name \in DOMAIN tbls
    /\ \E ci \in DOMAIN tbls[name].columns :
          /\ tbls[name].columns[ci] = "value"
          /\ \E ri_ \in DOMAIN tbls[name].fields : tbls[name].fields[ri_][ci] = v

HasAll(tbls, name, vals) == \A v \in vals : HasValue(tbls, name, v)

Misconfigured(tbls, name) ==
    \/ name \notin DOMAIN tbls
    \/ \A ci \in DOMAIN tbls[name].columns : tbls[name].columns[ci] # "value"

(* Every data manager of c declares a reload target, and every declared    *)
(* target holds every resolved input value of every (dm, item) pair.       *)
Populated(c, tbls) ==
    \A d \in DOMAIN c :
       /\ Len(GetReload(c[d])) >= 1
       /\ \A i \in DOMAIN GetItems(c[d]) :
             \A t \in DOMAIN GetReload(c[d]) :
                HasAll(tbls, GetReload(c[d])[t],
                       ValuesOf(ResolveInputs(c[d], GetItems(c[d])[i])))

AllHaveParams(c) == \A d \in DOMAIN c : Len(c[d].params) >= 1

AllSkipped == \A i \in DOMAIN results : results[i] = "SKIPPED"

----------------------------------------------------------------------------
(* C1, as stated: idempotence.  If every data manager declares a reload    *)
(* target and every declared target already holds every resolved input     *)
(* value of every pair, the run submits no job and reloads no table: every *)
(* pair is SKIPPED.  (Tables change only on a reload, so while nReload = 0 *)
(* the tables are those the run started with.)                             *)
C1_Idempotent_AsStated ==
    (nReload = 0 /\ Populated(conf, tables)) =>
        /\ nSubmit = 0
        /\ pc \notin {"submit", "wait", "reload", "aborted"}
        /\ AllSkipped
        /\ (pc = "done" => Len(results) = Len(Pairs))

(* C1, amended: the same, for configurations in which every data manager   *)
(* also has at least one param.                                            *)
C1_Idempotent ==
    (nReload = 0 /\ AllHaveParams(conf) /\ Populated(conf, tables)) =>
        /\ nSubmit = 0
        /\ pc \notin {"submit", "wait", "reload", "aborted"}
        /\ AllSkipped
        /\ (pc = "done" => Len(results) = Len(Pairs))

W_C1 ==
    /\ Populated(conf, tables)
    /\ AllHaveParams(conf)
    /\ pc = "done"
    /\ Len(results) >= 3
    /\ AllSkipped
    /\ nSubmit = 0
    /\ nReload = 0

(* C2: a pair found already present has only table reads among its calls   *)
(* (no submit, no poll, no reload), ends SKIPPED, and run_dm is back at    *)
(* the head of the loop for the next pair.                                 *)
C2_SkipDoesNothing ==
    (p > 0 /\ present /\ ~(pc = "check" /\ ~CheckDone) /\ pc # "aborted") =>
        /\ OnlyReads
        /\ (pc # "check" =>
               /\ pc \in {"next", "done"}
               /\ Len(results) = p
               /\ results[p] = "SKIPPED")

W_C2 ==
    /\ PairFinished
    /\ Len(results) = p
    /\ results[p] = "SKIPPED"
    /\ Len(calls) >= 2
    /\ OnlyReads
    /\ p < Len(Pairs)

RECURSIVE AfterTerminalPoll(_, _)
AfterTerminalPoll(cs, i) ==
    IF i > Len(cs)
    THEN <<>>
    ELSE IF cs[i].op = "poll" /\ Terminal(cs[i].state)
         THEN SubSeq(cs, i + 1, Len(cs))
         ELSE AfterTerminalPoll(cs, i + 1)

(* The tables of the reload calls in cs, in call order. *)
ReloadedTables(cs) ==
    LET rs == SelectSeq(cs, LAMBDA c : c.op = "reload")
    IN [i \in DOMAIN rs |-> rs[i].table]

(* Every target twice, in declaration order. *)
Twice(targets) == [i \in 1..(2 * Len(targets)) |-> targets[(i + 1) \div 2]]

(* The reload calls and sleeps prescribed for targets, for pair q. *)
Cadence(targets, q) ==
    [i \in 1..(4 * Len(targets)) |->
        IF i % 2 = 1
        THEN [op |-> "reload", pair |-> q, table |-> targets[(i + 3) \div 4],
              value |-> <<>>, state |-> "", secs |-> 0]
        ELSE [op |-> "sleep", pair |-> q, table |-> "", value |-> <<>>,
              state |-> "", secs |-> 5]]

IsPrefix(s, t) == Len(s) <= Len(t) /\ SubSeq(t, 1, Len(s)) = s

(* C4: a wait that ends on error is followed by the reloads of every       *)
(* declared target (each target twice, in order, as after ok), and then by *)
(* the next pair: the run is not aborted and the pair ends DONE.           *)
C4_ErrorStillReloads ==
    (p > 0 /\ WaitReturned /\ Outcome = "error") =>
        /\ pc \in {"reload", "next", "done"}
        /\ IsPrefix(ReloadedTables(calls), Twice(CurReload))
        /\ (pc \in {"next", "done"} =>
               /\ ReloadedTables(calls) = Twice(CurReload)
               /\ Len(results) = p
               /\ results[p] = "DONE")

W_C4 ==
    /\ p > 0
    /\ p < Len(Pairs)
    /\ pc = "next"
    /\ WaitReturned
    /\ Outcome = "error"
    /\ Len(CurReload) = 2
    /\ ReloadedTables(calls) = Twice(CurReload)

(* C5: for a pair that is run, what follows the wait is, for each declared *)
(* target in declaration order, reload - sleep 5 - reload - sleep 5: two   *)
(* separate calls per target, 2n reload calls for n targets.               *)
C5_ReloadCadence ==
    (p > 0 /\ WaitReturned) =>
        /\ IsPrefix(AfterTerminalPoll(calls, 1), Cadence(CurReload, p))
        /\ (PairFinished =>
               /\ AfterTerminalPoll(calls, 1) = Cadence(CurReload, p)
               /\ Len(CallsOf("reload")) = 2 * Len(CurReload))

W_C5 ==
    /\ PairFinished
    /\ WaitReturned
    /\ Len(CurReload) = 2
    /\ Len(CallsOf("reload")) = 4
    /\ AfterTerminalPoll(calls, 1) = Cadence(CurReload, p)

(* C10: a data manager without reload targets (key absent or empty list)   *)
(* is never skipped and never reloads: no table read, no reload call, and  *)
(* each item ends DONE after exactly one submission and a wait that saw a  *)
(* terminal state.                                                         *)
C10_NoTargetsAlwaysRuns ==
    (p > 0 /\ Len(CurReload) = 0) =>
        /\ Len(CallsOf("read")) = 0
        /\ Len(CallsOf("reload")) = 0
        /\ pc # "aborted"
        /\ (PairFinished =>
               /\ Len(results) = p
               /\ results[p] = "DONE"
               /\ Len(CallsOf("submit")) = 1
               /\ WaitReturned)

W_C10 ==
    /\ pc = "done"
    /\ p = 2
    /\ "data_table_reload" \notin DOMAIN CurDm
    /\ HasAll(tables, "A", ValuesOf(inputs))
    /\ HasAll(tables, "B", ValuesOf(inputs))
    /\ results = <<"DONE", "DONE">>
    /\ nSubmit = 2
    /\ nReload = 0

(* C6: pairs are taken one at a time in configuration order.  Every call  *)
(* is added to the log of the current pair and is made on its own tables   *)
(* and values; the loop moves to the next pair only from its head, when the    *)
(* pair before has ended SKIPPED or DONE; and never are two submitted jobs *)
(* awaiting a terminal state.                                              *)
C6_Step ==
    /\ waiting' <= 1
    /\ p' = p => IsPrefix(calls, calls')
    /\ calls' # calls =>
          LET targets == GetReload(conf[Pairs[p'].dm])
              values == ValuesOf(ResolveInputs(conf[Pairs[p'].dm], Pairs[p'].item))
          IN \A i \in (Len(calls) + 1)..Len(calls') :
                /\ calls'[i].pair = p'
                /\ calls'[i].op \in {"read", "reload"} =>
                      \E t \in DOMAIN targets : targets[t] = calls'[i].table
                /\ calls'[i].op = "read" => calls'[i].value \in values
    /\ p' # p =>
          /\ p' = p + 1
          /\ pc = "next"
          /\ Len(results) = p
          /\ waiting = 0
          /\ calls' = <<>>
    /\ (p' = p /\ calls' # calls) => Len(results) = p - 1

C6_Sequential == [][C6_Step]_vars

W_C6 ==
    /\ p = 3
    /\ Pairs[p].dm = 2
    /\ pc = "wait"
    /\ waiting = 1
    /\ nSubmit = 3
    /\ Len(results) = 2

(* The state of pair q in the terms of the per-pair state machine.  An     *)
(* abort leaves the current pair where it was.                             *)
PairState(q) ==
    IF q > p THEN "PENDING"
    ELSE IF q <= Len(results) THEN results[q]
    ELSE CASE pc = "check" -> "CHECKING"
           [] pc = "submit" -> "RUNNING"
           [] pc = "wait" -> "WAITING"
           [] pc = "reload" -> "RELOADING"
           [] OTHER -> IF Len(CallsOf("submit")) = 0 THEN "CHECKING" ELSE "ABORTED"

PairEdges ==
    {<<"PENDING", "CHECKING">>, <<"CHECKING", "SKIPPED">>,
     <<"CHECKING", "RUNNING">>, <<"RUNNING", "WAITING">>,
     <<"WAITING", "RELOADING">>, <<"RELOADING", "DONE">>}

Phase(c) ==
    CASE c.op = "read" -> 1
      [] c.op = "submit" -> 2
      [] c.op = "poll" -> 3
      [] c.op = "sleep" /\ c.secs = 30 -> 3
      [] OTHER -> 4

CallOrder(cs) ==
    /\ \A i \in 1..(Len(cs) - 1) : Phase(cs[i]) <= Phase(cs[i + 1])
    /\ Cardinality({i \in DOMAIN cs : cs[i].op = "submit"}) <= 1
    /\ (\E i \in DOMAIN cs : Phase(cs[i]) >= 3) =>
          (\E i \in DOMAIN cs : cs[i].op = "submit")
    /\ \A i \in DOMAIN cs :
          (cs[i].op = "poll" /\ Terminal(cs[i].state)) =>
             \A j \in DOMAIN cs : (j > i => Phase(cs[j]) = 4)
    /\ (\E i \in DOMAIN cs : Phase(cs[i]) = 4) =>
          (\E i \in DOMAIN cs : cs[i].op = "poll" /\ Terminal(cs[i].state))

(* C7: every pair moves only along CHECKING -> SKIPPED or CHECKING ->       *)
(* RUNNING -> WAITING -> RELOADING -> DONE (a step changes the state of    *)
(* the current pair or of the one it moves to; the finished pairs keep     *)
(* their result, the others are still to come).  The job is submitted only when *)
(* the existence checks of the pair are over, polls come only after the    *)
(* submission, and reloads only after a poll that saw ok or error.         *)
C7_Step ==
    /\ IsPrefix(results, results')
    /\ p' \in {p, p + 1}
    /\ \A q \in {p, p'} \ {0} :
          \/ PairState(q)' = PairState(q)
          \/ <<PairState(q), PairState(q)'>> \in PairEdges
    /\ CallOrder(calls')
    /\ pc' \in {"submit", "wait", "reload"} => CheckDone'
    /\ (\E i \in DOMAIN calls' : calls'[i].op = "submit") => CheckDone'

C7_PairStateMachine == [][C7_Step]_vars

W_C7 ==
    /\ p >= 2
    /\ pc = "next"
    /\ Len(results) = p
    /\ results[p] = "DONE"
    /\ \E q \in 1..(p - 1) : results[q] = "SKIPPED"
    /\ Len(CallsOf("read")) >= 2
    /\ Len(CallsOf("poll")) >= 2
    /\ Len(CallsOf("reload")) = 4

(* C8: when wait has returned for a job with one or more output datasets,  *)
(* none of the job's output datasets is in a non-terminal state.           *)
C8_WaitSeesAllTerminal ==
    (pc = "reload" /\ WaitReturned /\ Len(datasets) >= 1) =>
        \A k \in DOMAIN datasets : Terminal(datasets[k])

(* C9: an existence check on an unknown table or on a table without a      *)
(* "value" column aborts the run at once: the failing read is the last     *)
(* call and the only read of that table for the pair, nothing of the       *)
(* earlier pairs is undone, and no step follows the abort.                 *)
C9_Step ==
    /\ pc # "aborted"
    /\ (pc = "check" /\ ~CheckDone /\ Misconfigured(tables, CurReload[ti])) =>
          /\ pc' = "aborted"
          /\ err' # ""
          /\ calls' = Append(calls, ReadCall(CurReload[ti], inputs[order[vi]]))
          /\ Cardinality({i \in DOMAIN calls' :
                            /\ calls'[i].op = "read"
                            /\ calls'[i].table = CurReload[ti]}) = 1
          /\ UNCHANGED <<conf, tables, p, results, nSubmit, nReload, waiting>>
    /\ pc' = "aborted" =>
          /\ pc = "check"
          /\ Misconfigured(tables, CurReload[ti])

C9_MisconfigurationAborts == [][C9_Step]_vars

W_C9 ==
    /\ pc = "aborted"
    /\ err # ""
    /\ Len(results) >= 2
    /\ nSubmit >= 1
    /\ nReload >= 2
    /\ Len(CallsOf("read")) >= 2

(* C11: termination.  Unless an existence check aborts the run, and given  *)
(* that the polled dataset of every submitted job reaches ok or error, the *)
(* run ends with every pair of the configuration SKIPPED or DONE, whatever *)
(* the number of jobs that ended in error; and a wait is left only on a    *)
(* poll that saw ok or error (there is no timeout).                        *)
RunComplete ==
    /\ pc = "done"
    /\ Len(results) = Len(Pairs)
    /\ \A i \in DOMAIN results : results[i] \in {"SKIPPED", "DONE"}

C11_WaitStep == (pc = "wait" /\ pc' # "wait") => Terminal(datasets[1])

C11_Terminates == <>(pc = "aborted" \/ RunComplete) /\ [][C11_WaitStep]_vars

W_C11 ==
    /\ RunComplete
    /\ Len(results) >= 3
    /\ nSubmit >= 2
    /\ Outcome = "error"
    /\ Len(CallsOf("poll")) >= 2

(* The iterations C12 states for a data manager, and those of the amended  *)
(* claim (an items list that is declared but empty gives none).            *)
IterationsStated(dm) ==
    IF "items" \notin DOMAIN dm \/ Len(dm.items) = 0 THEN 1 ELSE Len(dm.items)

IterationsAmended(dm) ==
    IF "items" \notin DOMAIN dm THEN 1 ELSE Len(dm.items)

RECURSIVE StatedUpTo(_, _)
StatedUpTo(c, d) ==
    IF d = 0 THEN 0 ELSE StatedUpTo(c, d - 1) + IterationsStated(c[d])

RECURSIVE AmendedUpTo(_, _)
AmendedUpTo(c, d) ==
    IF d = 0 THEN 0 ELSE AmendedUpTo(c, d - 1) + IterationsAmended(c[d])

(* The item of the k-th iteration of dm. *)
ItemOfIteration(dm, k) == IF "items" \notin DOMAIN dm THEN <<>> ELSE dm.items[k]

(* C12, as stated: a data manager without items, or with an empty items    *)
(* list, is processed once with item "", one with k >= 1 items k times: a  *)
(* run that ends has made as many iterations as that gives in total.       *)
C12_Iterations_AsStated ==
    pc = "done" => p = StatedUpTo(conf, Len(conf))

(* C12, amended: a data manager whose items key is absent is processed     *)
(* once with item "" (placeholders resolve to the empty string); one that  *)
(* declares k >= 0 items is processed k times, once per item in order (not *)
(* at all for an empty list).                                              *)
C12_Iterations ==
    /\ pc = "done" => p = AmendedUpTo(conf, Len(conf))
    /\ p > 0 =>
          LET d == Pairs[p].dm
              k == p - AmendedUpTo(conf, d - 1)
          IN /\ k \in 1..IterationsAmended(conf[d])
             /\ CurItem = ItemOfIteration(conf[d], k)
             /\ \A i \in DOMAIN conf[d].params :
                   "items" \notin DOMAIN conf[d] /\ conf[d].params[i][2] = TmplItem
                      => inputs[conf[d].params[i][1]] = <<>>

W_C12 ==
    /\ pc = "done"
    /\ Len(conf) = 2
    /\ "items" \notin DOMAIN conf[2]
    /\ p = 3
    /\ CurItem = <<>>
    /\ inputs = [k \in {"k1"} |-> <<>>]
    /\ nSubmit >= 1

----------------------------------------------------------------------------
(* check_data_table_entry_exists on its own: one call on table "T" of a    *)
(* server whose table "T" is unknown or has any of the column layouts of   *)
(* ColumnLayouts and up to MaxRows rows.  The value looked for is          *)
(* inputs[1]; the call leaves its exception in err and its return value in *)
(* present.                                                                *)

MaxRows == 2

Cells == {aStr, bStr}

ColumnLayouts ==
    {<<>>, <<"value">>, <<"name", "value">>, <<"value", "name">>,
     <<"name", "path", "value">>, <<"name", "path">>, <<"Value", "name">>}

RowsOfWidth(w) == UNION {[1..n -> [1..w -> Cells]] : n \in 0..MaxRows}

CheckTables ==
    {<<>>} \cup
    UNION {{[n \in {"T"} |-> [columns |-> cols, fields |-> rows]] :
               rows \in RowsOfWidth(Len(cols))} : cols \in ColumnLayouts}

CheckInit ==
    /\ tables \in CheckTables
    /\ inputs \in {<<v>> : v \in Cells}
    /\ pc = "call"
    /\ present = FALSE
    /\ err = ""
    /\ conf = <<>>
    /\ p = 0
    /\ order = <<>>
    /\ ti = 1
    /\ vi = 1
    /\ datasets = <<>>
    /\ polls = 0
    /\ ri = 1
    /\ rc = 0
    /\ calls = <<>>
    /\ results = <<>>
    /\ nSubmit = 0
    /\ nReload = 0
    /\ waiting = 0

CheckCall ==
    /\ pc = "call"
    /\ LET r == CheckEntryExists(tables, "T", inputs[1])
       IN /\ err' = r.raised
          /\ present' = r.ret
    /\ pc' = "returned"
    /\ UNCHANGED <<conf, tables, p, inputs, order, ti, vi, datasets, polls, ri,
                   rc, calls, results, nSubmit, nReload, waiting>>

CheckSpec == CheckInit /\ [][CheckCall]_vars

(* C13: on an unknown table the check fails with the table-not-found       *)
(* error; on a table without a column named exactly "value" it fails with  *)
(* the missing-value-column error whatever the rows hold; otherwise it     *)
(* returns true exactly when some row holds the value in the "value"       *)
(* column, wherever that column stands and whatever the other columns hold.*)
C13_CheckContract ==
    pc = "returned" =>
        IF "T" \notin DOMAIN tables
        THEN err = "Table does not exist"
        ELSE IF \A ci \in DOMAIN tables["T"].columns :
                   tables["T"].columns[ci] # "value"
        THEN err = "Value does not exist in data table"
        ELSE /\ err = ""
             /\ present <=>
                   \E ci \in DOMAIN tables["T"].columns :
                      /\ tables["T"].columns[ci] = "value"
                      /\ \E r \in DOMAIN tables["T"].fields :
                            tables["T"].fields[r][ci] = inputs[1]

W_C13 ==
    /\ pc = "returned"
    /\ "T" \in DOMAIN tables
    /\ tables["T"].columns = <<"name", "path", "value">>
    /\ Len(tables["T"].fields) = 2
    /\ tables["T"].fields[1] = <<inputs[1], inputs[1], bStr>>
    /\ inputs[1] = aStr
    /\ tables["T"].fields[2][3] = aStr
    /\ present
    /\ err = ""

(***************************************************************************)
(* The substitution of line 84 on its own: a template value and an item,   *)
(* the call, and what it returned or raised.                               *)
(***************************************************************************)
MaxItemLen == 2

ItemChars == {"x", "n", "1", "\\"}

RECURSIVE StringsUpTo(_, _)
StringsUpTo(chars, n) ==
    IF n = 0
    THEN {<<>>}
    ELSE LET shorter == StringsUpTo(chars, n - 1)
         IN shorter \cup {<<c>> \o s : c \in chars, s \in shorter}

Str_x == <<"x">>

Templates ==
    { TmplItem,
      TmplItemWs,
      <<"{", "{", "I", "t", "E", "m", "}", "}">>,
      <<"{", "{", "\t", "I", "T", "E", "M", " ", " ", "}", "}">>,
      Str_x \o TmplItem \o Str_x \o TmplItemWs,
      TmplItem \o TmplItem,
      <<"{">> \o TmplItem \o <<"}">>,
      <<"{", "{", "i", "t", " ", "e", "m", "}", "}">>,
      <<"{", "i", "t", "e", "m", "}", "}">>,
      <<"{", "{", "i", "t", "e", "m", "}">>,
      <<"x", "\\", "n">>,
      EmptyStr }

SubItems ==
    StringsUpTo(ItemChars, MaxItemLen) \cup {TmplItem, Str_x \o TmplItem}

SubInit ==
    /\ inputs \in {<<t, i>> : t \in Templates, i \in SubItems}
    /\ pc = "call"
    /\ results = <<>>
    /\ err = ""
    /\ present = FALSE
    /\ tables = <<>>
    /\ conf = <<>>
    /\ p = 0
    /\ order = <<>>
    /\ ti = 1
    /\ vi = 1
    /\ datasets = <<>>
    /\ polls = 0
    /\ ri = 1
    /\ rc = 0
    /\ calls = <<>>
    /\ nSubmit = 0
    /\ nReload = 0
    /\ waiting = 0

SubCall ==
    /\ pc = "call"
    /\ LET r == SubResult(inputs[1], inputs[2])
       IN /\ err' = r.raised
          /\ results' = r.ret
    /\ pc' = "returned"
    /\ UNCHANGED <<conf, tables, p, inputs, order, present, ti, vi, datasets,
                   polls, ri, rc, calls, nSubmit, nReload, waiting>>

SubSpec == SubInit /\ [][SubCall]_vars

(* seg is one occurrence of the placeholder: two opening braces, any       *)
(* whitespace, the word item in any casing, any whitespace, two closing    *)
(* braces.                                                                 *)
IsPlaceholder(seg) ==
    \E a, b \in 0..Len(seg) :
       /\ Len(seg) = 8 + a + b
       /\ seg[1] = "{" /\ seg[2] = "{"
       /\ \A k \in 3..(2 + a) : IsSpace(seg[k])
       /\ <<Lower(seg[3 + a]), Lower(seg[4 + a]),
            Lower(seg[5 + a]), Lower(seg[6 + a])>> = <<"i", "t", "e", "m">>
       /\ \A k \in (7 + a)..(6 + a + b) : IsSpace(seg[k])
       /\ seg[Len(seg) - 1] = "}" /\ seg[Len(seg)] = "}"

(* The template from position i on, every occurrence of the placeholder    *)
(* replaced by the item exactly as it is written, the rest unchanged and   *)
(* what was put in not looked at again.                                    *)
RECURSIVE LiteralFrom(_, _, _)
LiteralFrom(value, item, i) ==
    IF i > Len(value)
    THEN <<>>
    ELSE IF \E j \in i..Len(value) : IsPlaceholder(SubSeq(value, i, j))
    THEN LET j == CHOOSE k \in i..Len(value) :
                      IsPlaceholder(SubSeq(value, i, k))
         IN item \o LiteralFrom(value, item, j + 1)
    ELSE <<value[i]>> \o LiteralFrom(value, item, i + 1)

(* C14: the resolved value is the template with every occurrence of the    *)
(* placeholder, in any casing and with any whitespace inside the braces,   *)
(* replaced by exactly the item string taken literally; every other        *)
(* character is unchanged and the substituted text is not scanned again.   *)
C14_LiteralSubstitution ==
    pc = "returned" =>
        /\ err = ""
        /\ results = LiteralFrom(inputs[1], inputs[2], 1)

(* The same with the item free of backslashes: what the code does keep.    *)
C14_LiteralWithoutBackslash ==
    (pc = "returned" /\ \A k \in DOMAIN inputs[2] : inputs[2][k] # "\\") =>
        /\ err = ""
        /\ results = LiteralFrom(inputs[1], inputs[2], 1)

----------------------------------------------------------------------------
(* C15: as the comment of line 96 says, with several reload targets the    *)
(* data manager runs whenever at least one of them lacks a resolved input  *)
(* value: a pair that ended SKIPPED has every resolved input value in      *)
(* every one of its targets.  (A skip changes no table, so the tables are  *)
(* those the checks read.)                                                 *)
C15_AnyUnpopulatedRuns ==
    (PairFinished /\ Len(results) = p /\ results[p] = "SKIPPED") =>
        \A t \in DOMAIN CurReload :
           HasAll(tables, CurReload[t], ValuesOf(inputs))

----------------------------------------------------------------------------
(* C16: table contents are never cached.  Every existence check is a read  *)
(* of its own and is answered from what the remote table holds at that     *)
(* moment; and when the loops are over, a pair whose resolved input values *)
(* are all in the last declared target now is SKIPPED, whatever earlier    *)
(* checks of the run found.                                                *)
C16_Step ==
    /\ (pc = "check" /\ ~CheckDone /\ pc' = "check") =>
          /\ Len(calls') = Len(calls) + 1
          /\ calls'[Len(calls')] = ReadCall(CurReload[ti], inputs[order[vi]])
          /\ present' <=> HasValue(tables, CurReload[ti], inputs[order[vi]])
    /\ (pc = "check" /\ CheckDone /\ Len(CurReload) >= 1 /\ Len(order) >= 1
           /\ HasAll(tables, CurReload[Len(CurReload)], ValuesOf(inputs))) =>
          (pc' = "check" \/ (pc' = "next" /\ results' = Append(results, "SKIPPED")))

C16_NeverCached == [][C16_Step]_vars

(* A pair ended SKIPPED although an earlier pair of the same data manager  *)
(* and item, so with the same inputs and targets, ran its job: the value   *)
(* became visible through the reloads of that earlier pair.                *)
W_C16 ==
    /\ PairFinished
    /\ Len(results) = p
    /\ results[p] = "SKIPPED"
    /\ Len(CurReload) >= 1
    /\ Len(order) >= 1
    /\ \E q \in 1..(p - 1) :
          /\ results[q] = "DONE"
          /\ conf[Pairs[q].dm] = CurDm
          /\ Pairs[q].item = CurItem

----------------------------------------------------------------------------
(* The last param of params that declares key. *)
LastDeclaring(params, key) ==
    CHOOSE i \in DOMAIN params :
       /\ params[i][1] = key
       /\ \A j \in DOMAIN params : params[j][1] = key => j <= i

(* C17: the inputs of a pair, checked against the tables and submitted     *)
(* with the job, have exactly the keys of the params of the pair's data    *)
(* manager, each with the value template of the last param declaring the   *)
(* key, resolved against the pair's item; nothing of an earlier pair is    *)
(* in them.                                                                *)
C17_FreshInputs ==
    (p > 0 /\ InputsRaise(CurDm.params, CurItem, 1) = "") =>
        /\ DOMAIN inputs = {CurDm.params[i][1] : i \in DOMAIN CurDm.params}
        /\ \A k \in DOMAIN inputs :
              inputs[k] =
                 LiteralFrom(CurDm.params[LastDeclaring(CurDm.params, k)][2],
                             CurItem, 1)

(* A job was submitted for a pair whose data manager declares a key twice, *)
(* after a pair of another data manager.                                   *)
W_C17 ==
    /\ p >= 2
    /\ Len(CallsOf("submit")) = 1
    /\ CurDm.params = Params3
    /\ inputs = [k \in {"k1"} |-> aStr]
    /\ conf[Pairs[p - 1].dm] # CurDm

----------------------------------------------------------------------------
(* C18: every resolved input value is checked, constants included.  A pair *)
(* that ended SKIPPED has a target and an input, and every one of its      *)
(* input values is in the "value" column of its last declared target.  A   *)
(* pair of a data manager without params is never skipped: it ends with    *)
(* one job submitted and every target reloaded.                            *)
C18_EveryValueChecked ==
    (PairFinished /\ Len(results) = p) =>
        /\ results[p] = "SKIPPED" =>
              /\ Len(CurReload) >= 1
              /\ Len(CurDm.params) >= 1
              /\ HasAll(tables, CurReload[Len(CurReload)], ValuesOf(inputs))
              /\ \A k \in DOMAIN inputs :
                    \E i \in DOMAIN calls :
                       /\ calls[i].op = "read"
                       /\ calls[i].table = CurReload[Len(CurReload)]
                       /\ calls[i].value = inputs[k]
        /\ Len(CurDm.params) = 0 =>
              /\ results[p] = "DONE"
              /\ Len(CallsOf("submit")) = 1
              /\ Len(CallsOf("reload")) = ReloadTimes * Len(CurReload)

(* A pair with a constant parameter was skipped: the constant was looked   *)
(* up in the last target like the value made from the item.                *)
W_C18 ==
    /\ PairFinished
    /\ Len(results) = p
    /\ results[p] = "SKIPPED"
    /\ CurDm.params = Params2
    /\ \E i \in DOMAIN calls :
          /\ calls[i].op = "read"
          /\ calls[i].table = CurReload[Len(CurReload)]
          /\ calls[i].value = cStr

----------------------------------------------------------------------------
(* The calls of the current pair hold a read of table name. *)
WasRead(name) ==
    \E i \in DOMAIN calls : calls[i].op = "read" /\ calls[i].table = name

(* C19: a value that is absent from one target ends the checks of that     *)
(* target only.  A pair with an input that got past its checks has read    *)
(* every one of its targets; so a pair with an input and a misconfigured   *)
(* target (unknown, or without a "value" column) never gets past them: no  *)
(* job is submitted for it, whatever the earlier targets answered.         *)
C19_EveryTargetRead ==
    (p > 0 /\ Len(order) >= 1) =>
        /\ pc \notin {"check", "aborted"} =>
              \A t \in DOMAIN CurReload : WasRead(CurReload[t])
        /\ (\E t \in DOMAIN CurReload : Misconfigured(tables, CurReload[t])) =>
              /\ pc \in {"check", "aborted"}
              /\ Len(CallsOf("submit")) = 0

(* The first target answered that the value is absent, the second is       *)
(* misconfigured: the run was aborted on the read of the second, before    *)
(* any submission.                                                         *)
W_C19 ==
    /\ pc = "aborted"
    /\ Len(CurReload) = 2
    /\ ~Misconfigured(tables, CurReload[1])
    /\ ~HasAll(tables, CurReload[1], ValuesOf(inputs))
    /\ Misconfigured(tables, CurReload[2])
    /\ WasRead(CurReload[1])
    /\ WasRead(CurReload[2])
    /\ Len(CallsOf("submit")) = 0

----------------------------------------------------------------------------
(* C20: a pair causes at most one job submission, also when its job ends   *)
(* in error; the submissions of a run are never more than the pairs begun, *)
(* which are never more than the pairs of the configuration.               *)
C20_AtMostOneSubmission ==
    /\ Len(CallsOf("submit")) <= 1
    /\ \A i \in DOMAIN calls : calls[i].op = "submit" => calls[i].pair = p
    /\ nSubmit <= p
    /\ p <= Len(Pairs)
    /\ (WaitReturned /\ Outcome = "error") => pc \in {"reload", "next", "done"}

(* Every pair so far submitted a job, and the job of the last one ended in *)
(* error: the pair is over with that one submission.                       *)
W_C20 ==
    /\ PairFinished
    /\ p >= 2
    /\ nSubmit = p
    /\ Len(results) = p
    /\ results[p] = "DONE"
    /\ Outcome = "error"
    /\ Len(CallsOf("submit")) = 1

====
